---- MODULE Spec2Model ----
(***************************************************************************)
(* Request/response view-state flow of the four form pages of the news     *)
(* client: the Q&A box (HelloWorldGenerator), the sources generator        *)
(* (SourcesGenerator), the article searcher (NewsSearcher) and the         *)
(* aggregator (NewsAggregator).                                            *)
(*                                                                         *)
(* One page is mounted at a time (react-router renders one Route), so the  *)
(* state is the mounted page's React state: its form fields, isLoading,    *)
(* error and result, plus the HTTP requests that page has dispatched and   *)
(* that have not settled.  An event handler runs to completion; the part   *)
(* of handleSubmit after its awaits runs as one continuation when the      *)
(* response settles, and its setState calls are applied together.          *)
(*                                                                         *)
(* Strings the code inspects (trim, startsWith, truthiness) are sequences  *)
(* of one-character strings; messages the code only stores and displays    *)
(* are TLA+ strings.                                                       *)
(***************************************************************************)
EXTENDS Integers, Sequences, FiniteSets, TLC

\* ------------------------------------------------------------------ bounds
\* Largest number of requests of one page in flight at once when the submit
\* event is dispatched on the form directly (SpecDirect).
MaxInFlight == 2

\* ------------------------------------------------------------- the pages
QA == "qa"
SOURCES == "sources"
SEARCHER == "searcher"
AGGREGATOR == "aggregator"

Pages == {QA, SOURCES, SEARCHER, AGGREGATOR}

\* Pages that call fetch(); the Q&A box calls axios.get().
FetchPages == {SOURCES, SEARCHER, AGGREGATOR}

\* ----------------------------------------------------------- JS strings
SP == " "

IsSpace(c) == c = SP

RECURSIVE TrimStart(_)
TrimStart(s) ==
  IF s = <<>> THEN <<>>
  ELSE IF IsSpace(Head(s)) THEN TrimStart(Tail(s)) ELSE s

RECURSIVE TrimEnd(_)
TrimEnd(s) ==
  IF s = <<>> THEN <<>>
  ELSE IF IsSpace(s[Len(s)]) THEN TrimEnd(SubSeq(s, 1, Len(s) - 1)) ELSE s

\* String.prototype.trim
Trim(s) == TrimEnd(TrimStart(s))

\* String.prototype.startsWith
StartsWith(s, prefix) ==
  /\ Len(s) >= Len(prefix)
  /\ SubSeq(s, 1, Len(prefix)) = prefix

\* A JS string is truthy iff it is not empty.
TruthyStr(s) == s # <<>>

HTTP == <<"h", "t", "t", "p">>
WWW == <<"w", "w", "w", ".">>
HTTPS_PREFIX == <<"h", "t", "t", "p", "s", ":", "/", "/">>

\* "Show me general news sources"
DefaultQuestion ==
  <<"S","h","o","w"," ","m","e"," ","g","e","n","e","r","a","l"," ",
    "n","e","w","s"," ","s","o","u","r","c","e","s">>

\* "General News"
DefaultTopic == <<"G","e","n","e","r","a","l"," ","N","e","w","s">>

\* ------------------------------------------------------ the form inputs
\* Values a text input can be given by one change event.
TextInputs == { <<>>, <<SP>>, <<"a">>, <<SP, "a">> }

UrlInputs ==
  { <<>>, <<"a">>, WWW \o <<"a">>, <<"h", "t", "t">>, HTTP,
    HTTPS_PREFIX \o <<"a">> }

QueryInputs == { <<>>, <<"a">> }

\* The <option> values of each page's <select>.
SourcesLanguages == {"en", "hi", "kn", "kok", "bn", "es", "fr"}
AggregatorLanguages == {"en", "es", "fr"}
SearchMethods == {"combined", "direct_scrape", "serper"}

\* The options the modelled user picks among.
LanguageInputs == {"en", "es"}
MethodInputs == {"combined", "serper"}

\* useState initial values of the form of each page.
InitialForm(p) ==
  CASE p = QA -> [question |-> <<>>]
    [] p = SOURCES -> [language |-> "en", topic |-> <<>>]
    [] p = SEARCHER -> [url |-> <<>>, query |-> <<>>, method |-> "combined"]
    [] p = AGGREGATOR -> [language |-> "en", topic |-> <<>>]

\* ------------------------------------------------------- HTTP responses
ABSENT == "<absent>"
NoCount == -1

\* A response body.  json: "bad" (not JSON), "null" (the JSON value null) or
\* "obj" (a JSON object).  For an object each field the pages read is either
\* ABSENT or its value: error and message are strings ("" is the empty
\* string); answer is a string or "OBJ", an object whose sources member is
\* described by sourcesKind/sources; articles by articlesKind/articles.
\* Without an answer member, sourcesKind/sources describe the sources member
\* of the body itself (the aggregator's data.sources).  The entries of a
\* list are names of records of the catalogues SourceRecord/ArticleRecord.
MkBody(json, err, answer, sk, srcs, ak, arts, msg, cnt) ==
  [json |-> json, error |-> err, answer |-> answer,
   sourcesKind |-> sk, sources |-> srcs,
   articlesKind |-> ak, articles |-> arts,
   message |-> msg, count |-> cnt]

EmptyObj == MkBody("obj", ABSENT, ABSENT, ABSENT, <<>>, ABSENT, <<>>, ABSENT, NoCount)
BadJson == [EmptyObj EXCEPT !.json = "bad"]
NullJson == [EmptyObj EXCEPT !.json = "null"]

ErrorBodies == { [EmptyObj EXCEPT !.error = e] : e \in {"", "E1", "E2"} }
AnswerBodies == { [EmptyObj EXCEPT !.answer = a] : a \in {"", "A1", "A2"} }
SourcesBodies ==
  { [EmptyObj EXCEPT !.answer = "OBJ"],
    [EmptyObj EXCEPT !.answer = "OBJ", !.sourcesKind = "notarray"],
    [EmptyObj EXCEPT !.answer = "OBJ", !.sourcesKind = "array"],
    [EmptyObj EXCEPT !.answer = "OBJ", !.sourcesKind = "array", !.sources = <<"s1">>],
    [EmptyObj EXCEPT !.answer = "OBJ", !.sourcesKind = "array", !.sources = <<"s2", "s1">>],
    [EmptyObj EXCEPT !.answer = "OBJ", !.sourcesKind = "array",
                     !.sources = <<"s1", "s3", "s1">>],
    [EmptyObj EXCEPT !.answer = "OBJ", !.sourcesKind = "array",
                     !.sources = <<"s4", "s5">>] }
ArticlesBodies ==
  { [EmptyObj EXCEPT !.articlesKind = "notarray"],
    [EmptyObj EXCEPT !.articlesKind = "array", !.count = 0],
    [EmptyObj EXCEPT !.articlesKind = "array", !.articles = <<"a1">>, !.count = 1],
    [EmptyObj EXCEPT !.articlesKind = "array", !.articles = <<"a1">>],
    [EmptyObj EXCEPT !.articlesKind = "array", !.articles = <<"a2", "a2", "a1">>,
                     !.count = 3,
                     !.sourcesKind = "array", !.sources = <<"s2", "s2", "s1">>] }
MessageBodies == { [EmptyObj EXCEPT !.message = "M1"] }

Bodies ==
  {EmptyObj, BadJson, NullJson} \cup ErrorBodies \cup AnswerBodies
    \cup SourcesBodies \cup ArticlesBodies \cup MessageBodies

Statuses == {200, 404, 500}

\* Response.ok / axios validateStatus: 2xx.
IsOk(status) == status >= 200 /\ status <= 299

\* Message text of an exception the JS engine or the HTTP client raises
\* (fetch's network TypeError, response.json()'s SyntaxError, a TypeError on
\* reading a property of null).  The text differs between engines.
EngineMsgs == {"engine message 1", "engine message 2"}

\* The engine's message text is read only when the request gets no response
\* or when the body is not a JSON object.
UsesEngineMsg(b) == b.json \in {"bad", "null"}

\* What a dispatched request settles with: no response at all (net = "fail")
\* or a response with a status and a body.
Responses ==
  { [net |-> "fail", status |-> 0, body |-> EmptyObj, exc |-> m] : m \in EngineMsgs }
    \cup
  { [net |-> "ok", status |-> s, body |-> b, exc |-> m] :
      s \in Statuses, b \in {x \in Bodies : UsesEngineMsg(x)}, m \in EngineMsgs }
    \cup
  { [net |-> "ok", status |-> s, body |-> b, exc |-> ""] :
      s \in Statuses, b \in {x \in Bodies : ~UsesEngineMsg(x)} }

\* ------------------------------------------------------------- the state
VARIABLES
  page,       \* the mounted page
  form,       \* question (Q&A) / formData (the other pages)
  isLoading,  \* useState(false)
  error,      \* useState(null): NULL or the displayed message
  data,       \* answer / sourcesData / articles / data
  inflight,   \* requests dispatched by the page and not yet settled
  overlap,    \* history: the last dispatch happened while another was pending
  ev          \* history: the last event, its request and its response

vars == <<page, form, isLoading, error, data, inflight, overlap, ev>>

NULL == "<null>"

\* The result state before any result: '' for the Q&A answer, null elsewhere.
NoData(p) == IF p = QA THEN [t |-> "answer", v |-> ""] ELSE [t |-> "none"]

NoReq == [id |-> 0]
NoResp == [net |-> "none"]


\* ------------------------------------------------------------- messages
PleaseEnterQuestion == "Please enter a question"
InvalidFormat == "Invalid response format from server"
NoResponseMsg == "No response from server. Please check if the backend is running."
NoSourcesFound == "No sources found. Please try a different topic."
NoSourcesAvailable == "No sources available for this topic. Please try a different search."

\* The status-code fallback of each page.
ServerErrorMsg(p, status) ==
  CASE p = QA -> "Server error: " \o ToString(status)
    [] p \in {SOURCES, SEARCHER} ->
         "Server error (" \o ToString(status) \o "). Please try again."
    [] p = AGGREGATOR -> "Server error (" \o ToString(status) \o ")"

\* JS truthiness of a string member of the body: absent (undefined) and ''
\* are falsy.
Truthy(x) == x # ABSENT /\ x # ""

\* ------------------------------------------------------- what is rendered
\* {error && ...}
HasError == error # NULL

\* {answer && ...}, {sourcesData && ...}, {articles && ...}, {data && ...}
HasData == IF page = QA THEN data.v # "" ELSE data.t # "none"

\* The result block as rendered: the sources generator and the searcher
\* render it under `&& !error`, the Q&A box and the aggregator do not.
ResultShown == HasData /\ (page \in {SOURCES, SEARCHER} => ~HasError)

\* The view-state variants the flags indicate.
Variants ==
  (IF isLoading THEN {"Loading"} ELSE {})
    \cup (IF HasError THEN {"Error"} ELSE {})
    \cup (IF HasData THEN {"Success"} ELSE {})
    \cup (IF ~isLoading /\ ~HasError /\ ~HasData THEN {"Idle"} ELSE {})

\* The record of an event: its kind, the request and response it is about and
\* the variants indicated when it happened.
Event(kind, req, resp) ==
  [kind |-> kind, req |-> req, resp |-> resp, from |-> Variants,
   name |-> "", value |-> <<>>]

\* The record of a change event: the name and value of its target.
InputEvent(name, value) ==
  [Event("input", NoReq, NoResp) EXCEPT !.name = name, !.value = value]

\* disabled={isLoading} on every input and select.
InputsDisabled == isLoading

\* A submit button that stays enabled while a request is pending.
ButtonDisabled_NoLoading ==
  IF page = QA THEN ~TruthyStr(form.question) ELSE FALSE

\* disabled of the submit button.
ButtonDisabled ==
  IF page = QA THEN isLoading \/ ~TruthyStr(form.question) ELSE isLoading

\* The `required` attribute: the browser does not fire the submit event
\* while a required input is empty.
RequiredMissing ==
  CASE page = SEARCHER -> form.url = <<>> \/ form.query = <<>>
    [] page = AGGREGATOR -> form.topic = <<>>
    [] OTHER -> FALSE

\* --------------------------------------------------------------------- Init
Init ==
  /\ page \in Pages
  /\ form = InitialForm(page)
  /\ isLoading = FALSE
  /\ error = NULL
  /\ data = NoData(page)
  /\ inflight = {}
  /\ overlap = FALSE
  /\ ev = [kind |-> "init", req |-> NoReq, resp |-> NoResp, from |-> {"Idle"},
           name |-> "", value |-> <<>>]

\* --------------------------------------------------------- handleInputChange
\* A url rule that prepends 'www.' but no protocol.
NormalizeUrl_NoProtocol(value) ==
  IF TruthyStr(value) /\ ~StartsWith(value, HTTP)
  THEN (IF StartsWith(value, WWW) THEN <<>> ELSE WWW) \o value
  ELSE value

\* NewsSearcher.handleInputChange's url rule: a non-empty value that does not
\* start with 'http' is stored as 'https://' + ('www.' unless present) + value.
NormalizeUrl(value) ==
  IF TruthyStr(value) /\ ~StartsWith(value, HTTP)
  THEN HTTPS_PREFIX \o (IF StartsWith(value, WWW) THEN <<>> ELSE WWW) \o value
  ELSE value

\* The names and values a change event of page p can carry.
FieldInputs(p) ==
  CASE p = QA -> { <<"question", v>> : v \in TextInputs }
    [] p = SOURCES ->
         { <<"language", v>> : v \in SourcesLanguages \cap LanguageInputs }
           \cup { <<"topic", v>> : v \in TextInputs }
    [] p = SEARCHER ->
         { <<"url", v>> : v \in UrlInputs }
           \cup { <<"query", v>> : v \in QueryInputs }
           \cup { <<"method", v>> : v \in SearchMethods \cap MethodInputs }
    [] p = AGGREGATOR ->
         { <<"language", v>> : v \in AggregatorLanguages \cap LanguageInputs }
           \cup { <<"topic", v>> : v \in TextInputs }

\* The form state after handleInputChange({target: {name, value}}).
ChangedForm(p, f, name, value) ==
  IF p = SEARCHER /\ name = "url"
  THEN [f EXCEPT ![name] = NormalizeUrl(value)]
  ELSE [f EXCEPT ![name] = value]

\* A change handler that also clears the displayed result.
HandleInputChange_ClearsData ==
  /\ ~InputsDisabled
  /\ \E nv \in FieldInputs(page) :
       /\ form' = ChangedForm(page, form, nv[1], nv[2])
       /\ ev' = InputEvent(nv[1], nv[2])
  /\ error' = NULL
  /\ data' = NoData(page)
  /\ UNCHANGED <<page, isLoading, inflight, overlap>>

\* A change event of an enabled input: the field is stored and the error
\* is cleared; isLoading and the result are not touched.
HandleInputChange ==
  /\ ~InputsDisabled
  /\ \E nv \in FieldInputs(page) :
       /\ form' = ChangedForm(page, form, nv[1], nv[2])
       /\ ev' = InputEvent(nv[1], nv[2])
  /\ error' = NULL
  /\ UNCHANGED <<page, isLoading, data, inflight, overlap>>

\* ---------------------------------------------------------------- handleSubmit
\* s || fallback for a JS string.
OrElse(s, fallback) == IF TruthyStr(s) THEN s ELSE fallback

\* A request built from the question as typed, without trimming it.
BuildRequest_Untrimmed(p, f, id) ==
  CASE p = QA ->
         [id |-> id, page |-> p, form |-> f, method |-> "GET",
          endpoint |-> "http://localhost:8002/ask",
          params |-> [question |-> f.question]]
    [] p = SOURCES ->
         [id |-> id, page |-> p, form |-> f, method |-> "POST",
          endpoint |-> "http://localhost:8002/sources",
          params |-> [question |-> OrElse(f.topic, DefaultQuestion)]]
    [] p = SEARCHER ->
         [id |-> id, page |-> p, form |-> f, method |-> "GET",
          endpoint |-> "http://localhost:8000/search",
          params |-> [url |-> f.url, query |-> f.query, method |-> f.method]]
    [] p = AGGREGATOR ->
         [id |-> id, page |-> p, form |-> f, method |-> "GET",
          endpoint |-> "http://localhost:8003/coordinate",
          params |-> [question |-> f.topic]]

\* A request of the aggregator that also carries the language field.
BuildRequest_WithLanguage(p, f, id) ==
  CASE p = QA ->
         [id |-> id, page |-> p, form |-> f, method |-> "GET",
          endpoint |-> "http://localhost:8002/ask",
          params |-> [question |-> Trim(f.question)]]
    [] p = SOURCES ->
         [id |-> id, page |-> p, form |-> f, method |-> "POST",
          endpoint |-> "http://localhost:8002/sources",
          params |-> [question |-> OrElse(f.topic, DefaultQuestion)]]
    [] p = SEARCHER ->
         [id |-> id, page |-> p, form |-> f, method |-> "GET",
          endpoint |-> "http://localhost:8000/search",
          params |-> [url |-> f.url, query |-> f.query, method |-> f.method]]
    [] p = AGGREGATOR ->
         [id |-> id, page |-> p, form |-> f, method |-> "GET",
          endpoint |-> "http://localhost:8003/coordinate",
          params |-> [question |-> f.topic, language |-> f.language]]

\* The request handleSubmit builds from the form state it closes over.
BuildRequest(p, f, id) ==
  CASE p = QA ->
         [id |-> id, page |-> p, form |-> f, method |-> "GET",
          endpoint |-> "http://localhost:8002/ask",
          params |-> [question |-> Trim(f.question)]]
    [] p = SOURCES ->
         [id |-> id, page |-> p, form |-> f, method |-> "POST",
          endpoint |-> "http://localhost:8002/sources",
          params |-> [question |-> OrElse(f.topic, DefaultQuestion)]]
    [] p = SEARCHER ->
         [id |-> id, page |-> p, form |-> f, method |-> "GET",
          endpoint |-> "http://localhost:8000/search",
          params |-> [url |-> f.url, query |-> f.query, method |-> f.method]]
    [] p = AGGREGATOR ->
         [id |-> id, page |-> p, form |-> f, method |-> "GET",
          endpoint |-> "http://localhost:8003/coordinate",
          params |-> [question |-> f.topic]]

\* A validation that tests the question without trimming it.
FailsValidation_NoTrim(p, f) == p = QA /\ ~TruthyStr(f.question)

\* The Q&A box rejects a blank question before dispatch; the other handlers
\* have no check of their own.
FailsValidation(p, f) == p = QA /\ ~TruthyStr(Trim(f.question))

FreeId == CHOOSE i \in 1..(MaxInFlight + 1) : \A r \in inflight : r.id # i

\* A handleSubmit that leaves the previous error in place.
HandleSubmit_KeepError ==
  IF FailsValidation(page, form)
  THEN /\ error' = PleaseEnterQuestion
       /\ ev' = Event("invalid", NoReq, NoResp)
       /\ UNCHANGED <<page, form, isLoading, data, inflight, overlap>>
  ELSE LET req == BuildRequest(page, form, FreeId) IN
       /\ isLoading' = TRUE
       /\ data' = NoData(page)
       /\ inflight' = inflight \cup {req}
       /\ overlap' = (inflight # {})
       /\ ev' = Event("submit", req, NoResp)
       /\ UNCHANGED <<page, form, error>>

\* A handleSubmit that dispatches without raising isLoading.
HandleSubmit_NoLoading ==
  IF FailsValidation(page, form)
  THEN /\ error' = PleaseEnterQuestion
       /\ ev' = Event("invalid", NoReq, NoResp)
       /\ UNCHANGED <<page, form, isLoading, data, inflight, overlap>>
  ELSE LET req == BuildRequest(page, form, FreeId) IN
       /\ data' = NoData(page)
       /\ error' = NULL
       /\ inflight' = inflight \cup {req}
       /\ overlap' = (inflight # {})
       /\ ev' = Event("submit", req, NoResp)
       /\ UNCHANGED <<page, form, isLoading>>

\* handleSubmit up to its first await.
HandleSubmit ==
  IF FailsValidation(page, form)
  THEN /\ error' = PleaseEnterQuestion
       /\ ev' = Event("invalid", NoReq, NoResp)
       /\ UNCHANGED <<page, form, isLoading, data, inflight, overlap>>
  ELSE LET req == BuildRequest(page, form, FreeId) IN
       /\ isLoading' = TRUE
       /\ data' = NoData(page)
       /\ error' = NULL
       /\ inflight' = inflight \cup {req}
       /\ overlap' = (inflight # {})
       /\ ev' = Event("submit", req, NoResp)
       /\ UNCHANGED <<page, form>>

\* The user submits the form (click on the button, Enter in a field).  A
\* disabled button submits nothing; with a required input empty the browser
\* reports the constraint and fires no submit event.
SubmitForm ==
  /\ ~ButtonDisabled
  /\ IF RequiredMissing
     THEN /\ ev' = Event("blocked", NoReq, NoResp)
          /\ UNCHANGED <<page, form, isLoading, error, data, inflight, overlap>>
     ELSE HandleSubmit

\* A submit event dispatched on the form itself by a script: neither the
\* disabled button nor the required attributes are consulted, and
\* handleSubmit has no guard on isLoading.
SubmitDirect ==
  /\ Cardinality(inflight) < MaxInFlight
  /\ HandleSubmit

\* ------------------------------------------------------------ settlement
\* The setState calls of the continuation of handleSubmit, as the pair
\* (result, error) they leave, given the values d and e they start from.
Outcome(d, e) == [data |-> d, error |-> e]

\* HelloWorldGenerator: axios rejects on no response and on a non-2xx status.
SettleQA(resp, d, e) ==
  LET b == resp.body IN
  IF resp.net = "fail" THEN Outcome(d, NoResponseMsg)
  ELSE IF ~IsOk(resp.status)
  THEN Outcome(d, IF b.json = "obj" /\ Truthy(b.error)
                  THEN b.error ELSE ServerErrorMsg(QA, resp.status))
  ELSE IF b.json = "obj" /\ Truthy(b.answer)
  THEN Outcome([t |-> "answer", v |-> b.answer], e)
  ELSE Outcome(d, InvalidFormat)

\* A non-ok branch that ignores the error member of the body.
FetchThrown_StatusOnly(p, resp) ==
  LET b == resp.body IN
  IF resp.net = "fail" THEN resp.exc
  ELSE IF b.json = "bad" THEN resp.exc
  ELSE IF ~IsOk(resp.status)
  THEN IF b.json = "null" THEN resp.exc
       ELSE ServerErrorMsg(p, resp.status)
  ELSE NULL

\* The message of the exception the fetch pages raise before they look at a
\* 2xx payload, or NULL when none is raised: fetch rejects, response.json()
\* rejects, or the status is not ok.
FetchThrown(p, resp) ==
  LET b == resp.body IN
  IF resp.net = "fail" THEN resp.exc
  ELSE IF b.json = "bad" THEN resp.exc
  ELSE IF ~IsOk(resp.status)
  THEN IF b.json = "null" THEN resp.exc
       ELSE IF Truthy(b.error) THEN b.error
       ELSE ServerErrorMsg(p, resp.status)
  ELSE NULL

\* error.message || fallback, for a message that is a displayed string.
MsgOrElse(m, fallback) == IF m = "" THEN fallback ELSE m

\* A settlement of the sources generator without the array and length test.
SettleSources_NoEmptyCheck(req, resp, d, e) ==
  LET b == resp.body
      thrown ==
        IF FetchThrown(SOURCES, resp) # NULL THEN FetchThrown(SOURCES, resp)
        ELSE IF b.json = "null" THEN resp.exc
        ELSE IF ~Truthy(b.answer) \/ b.answer # "OBJ" \/ b.sourcesKind = ABSENT
        THEN NoSourcesFound
        ELSE NULL
  IN
  IF thrown # NULL
  THEN Outcome(NoData(SOURCES),
               MsgOrElse(thrown, "Failed to generate sources. Please try again."))
  ELSE Outcome([t |-> "sources",
                topic |-> OrElse(req.form.topic, DefaultTopic),
                sources |-> b.sources], e)

SettleSources(req, resp, d, e) ==
  LET b == resp.body
      thrown ==
        IF FetchThrown(SOURCES, resp) # NULL THEN FetchThrown(SOURCES, resp)
        ELSE IF b.json = "null" THEN resp.exc
        ELSE IF ~Truthy(b.answer) \/ b.answer # "OBJ" \/ b.sourcesKind = ABSENT
        THEN NoSourcesFound
        ELSE IF b.sourcesKind # "array" \/ Len(b.sources) = 0
        THEN NoSourcesAvailable
        ELSE NULL
  IN
  IF thrown # NULL
  THEN Outcome(NoData(SOURCES),
               MsgOrElse(thrown, "Failed to generate sources. Please try again."))
  ELSE Outcome([t |-> "sources",
                topic |-> OrElse(req.form.topic, DefaultTopic),
                sources |-> b.sources], e)

SettleSearcher(resp, d, e) ==
  LET b == resp.body
      pre == FetchThrown(SEARCHER, resp)
      catch(m) ==
        Outcome(NoData(SEARCHER),
                MsgOrElse(m, "Failed to search articles. Please try again."))
  IN
  IF pre # NULL THEN catch(pre)
  ELSE IF b.json = "null" THEN catch(resp.exc)
  ELSE IF b.articlesKind = "array" THEN Outcome([t |-> "body", v |-> b], e)
  ELSE IF Truthy(b.message) THEN Outcome(d, b.message)
  ELSE catch(InvalidFormat)

SettleAggregator(resp, d, e) ==
  LET b == resp.body
      pre == FetchThrown(AGGREGATOR, resp)
  IN
  IF pre # NULL THEN Outcome(d, MsgOrElse(pre, "Failed to fetch data"))
  ELSE IF b.json = "null" THEN Outcome(NoData(AGGREGATOR), e)
  ELSE Outcome([t |-> "body", v |-> b], e)

SettleOutcome(p, req, resp, d, e) ==
  CASE p = QA -> SettleQA(resp, d, e)
    [] p = SOURCES -> SettleSources(req, resp, d, e)
    [] p = SEARCHER -> SettleSearcher(resp, d, e)
    [] p = AGGREGATOR -> SettleAggregator(resp, d, e)

\* A settlement that sends the request again when it ends in an error.
Settle_Retry ==
  \E req \in inflight, resp \in Responses :
    LET o == SettleOutcome(page, req, resp, data, error) IN
    /\ data' = o.data
    /\ error' = o.error
    /\ isLoading' = FALSE
    /\ inflight' = IF o.error # NULL THEN inflight ELSE inflight \ {req}
    /\ ev' = Event("settle", req, resp)
    /\ UNCHANGED <<page, form, overlap>>

\* A settlement that resets the form to its initial values.
Settle_ResetForm ==
  \E req \in inflight, resp \in Responses :
    LET o == SettleOutcome(page, req, resp, data, error) IN
    /\ data' = o.data
    /\ error' = o.error
    /\ isLoading' = FALSE
    /\ form' = InitialForm(page)
    /\ inflight' = inflight \ {req}
    /\ ev' = Event("settle", req, resp)
    /\ UNCHANGED <<page, overlap>>

\* The response of an in-flight request settles and the rest of that
\* handleSubmit runs, down to `finally { setIsLoading(false) }`.
Settle ==
  \E req \in inflight, resp \in Responses :
    LET o == SettleOutcome(page, req, resp, data, error) IN
    /\ data' = o.data
    /\ error' = o.error
    /\ isLoading' = FALSE
    /\ inflight' = inflight \ {req}
    /\ ev' = Event("settle", req, resp)
    /\ UNCHANGED <<page, form, overlap>>

\* ------------------------------------------------------------ behaviours
\* The page as the user drives it through the rendered form.
Next == HandleInputChange \/ SubmitForm \/ Settle

Spec == Init /\ [][Next]_vars

\* The page when submit events are also dispatched on the form directly.
NextDirect == HandleInputChange \/ SubmitForm \/ SubmitDirect \/ Settle

SpecDirect == Init /\ [][NextDirect]_vars

\* ================================================================ claims
\* The required field of the mounted page is empty (blank for the Q&A box).
RequiredEmpty ==
  CASE page = QA -> ~TruthyStr(Trim(form.question))
    [] page = SEARCHER -> form.url = <<>> \/ form.query = <<>>
    [] page = AGGREGATOR -> form.topic = <<>>
    [] OTHER -> FALSE

SubmitKinds == {"submit", "invalid", "blocked"}

\* C1: from Idle with valid form inputs a submit leads to Loading and nothing
\* leads straight to Success or Error; a settlement in Loading leads to
\* exactly one of Success and Error.
C1_IdleLoadingSettled ==
  [][ /\ (Variants = {"Idle"} /\ ~RequiredEmpty)
         => /\ Variants' \in {{"Idle"}, {"Loading"}}
            /\ (ev'.kind \in SubmitKinds => Variants' = {"Loading"})
      /\ (Variants = {"Loading"} /\ ev'.kind = "settle")
         => Variants' \in {{"Success"}, {"Error"}} ]_vars

\* C2 (as claimed): in every reachable state exactly one variant is
\* indicated by the flags.
C2_ExactlyOneVariant == Cardinality(Variants) = 1

\* C2 (amended): isLoading never comes with an error or a result, and an
\* error comes with a result only on the Q&A page, where the blank-question
\* message is shown next to the answer still displayed.
C2_OneVariantOrValidation ==
  /\ isLoading => (~HasError /\ ~HasData)
  /\ (HasError /\ HasData) => (page = QA /\ error = PleaseEnterQuestion)
  /\ Variants # {}

C2_Witness ==
  /\ page = QA /\ ev.kind = "invalid"
  /\ HasError /\ HasData /\ ~isLoading

\* C3 (as claimed): the indicated variant changes only on a submit, to
\* Loading, and on a settlement, to Success or Error.
C3_OnlySubmitAndSettle ==
  [][ Variants' # Variants =>
        \/ ev'.kind = "submit" /\ Variants' = {"Loading"}
        \/ ev'.kind = "settle" /\ Variants' \in {{"Success"}, {"Error"}} ]_vars

\* C3 (amended): the indicated variant changes only on a submit (to Loading,
\* or on the Q&A page to Error when the question is blank), on a settlement
\* (which ends Loading), and on an input change, which only clears a
\* displayed error and touches neither isLoading nor the result.
C3_SubmitSettleOrClearError ==
  [][ /\ Variants' # Variants =>
           \/ ev'.kind = "submit" /\ Variants' = {"Loading"}
           \/ ev'.kind = "settle" /\ isLoading /\ ~isLoading'
           \/ /\ ev'.kind = "invalid" /\ page = QA
              /\ error' = PleaseEnterQuestion /\ data' = data
              /\ isLoading' = isLoading
           \/ /\ ev'.kind = "input" /\ HasError /\ ~HasError'
              /\ data' = data /\ isLoading' = isLoading
      /\ ev'.kind = "input" => (data' = data /\ isLoading' = isLoading) ]_vars

C3_Witness ==
  /\ ev.kind = "input" /\ ev.from = {"Error"} /\ Variants = {"Idle"}

\* C4 (as claimed): every run of handleSubmit dispatches exactly one request
\* and a settlement dispatches none.
C4_OneCallPerInvocation ==
  [][ /\ ev'.kind \in {"submit", "invalid"}
         => Cardinality(inflight') = Cardinality(inflight) + 1
      /\ ev'.kind \notin {"submit", "invalid"} => inflight' \subseteq inflight ]_vars

\* C4 (amended): a run of handleSubmit that passes validation dispatches
\* exactly one request, a run the Q&A box rejects for a blank question
\* dispatches none, and nothing else dispatches: a settlement, success or
\* error, only removes the settled request.
C4_OneCallPerValidSubmit ==
  [][ /\ ev'.kind = "submit"
         => /\ Cardinality(inflight') = Cardinality(inflight) + 1
            /\ inflight' = inflight \cup {ev'.req}
      /\ ev'.kind = "invalid" => (inflight' = inflight /\ page = QA)
      /\ ev'.kind = "settle" => inflight' = inflight \ {ev'.req}
      /\ ev'.kind \notin {"submit", "invalid", "settle"} => inflight' = inflight ]_vars

C4_Witness ==
  /\ ev.kind = "settle" /\ HasError /\ inflight = {} /\ ~isLoading

\* The body is a JSON object with an error member.
HasErrorField(b) == b.json = "obj" /\ b.error # ABSENT

\* C5 (as claimed): after a non-2xx response whose body has a non-empty
\* error member X the page is in Error with message X, and the status
\* fallback is displayed only when the body has no error member.
C5_ServerErrorVerbatim ==
  (ev.kind = "settle" /\ ev.resp.net = "ok" /\ ~IsOk(ev.resp.status)) =>
    /\ (ev.resp.body.json = "obj" /\ Truthy(ev.resp.body.error))
         => (error = ev.resp.body.error /\ Variants = {"Error"})
    /\ error = ServerErrorMsg(page, ev.resp.status)
         => ~HasErrorField(ev.resp.body)

\* C5 (amended): as claimed, except that the status fallback is displayed
\* when the body has no error member or an empty (falsy) one.
C5_ServerErrorVerbatimOrFallback ==
  (ev.kind = "settle" /\ ev.resp.net = "ok" /\ ~IsOk(ev.resp.status)) =>
    /\ (ev.resp.body.json = "obj" /\ Truthy(ev.resp.body.error))
         => (error = ev.resp.body.error /\ Variants = {"Error"})
    /\ error = ServerErrorMsg(page, ev.resp.status)
         => ~(ev.resp.body.json = "obj" /\ Truthy(ev.resp.body.error))
    /\ (ev.resp.body.json = "obj" /\ ~Truthy(ev.resp.body.error))
         => (error = ServerErrorMsg(page, ev.resp.status) /\ Variants = {"Error"})

C5_Witness ==
  /\ ev.kind = "settle" /\ ev.resp.net = "ok" /\ ev.resp.status = 404
  /\ ev.resp.body.json = "obj" /\ ev.resp.body.error = "E1"
  /\ error = "E1" /\ page \in FetchPages

\* What the page displays: the loading indicator, the error block and the
\* result block.
Displayed(p, l, e, d) ==
  [loading |-> l, error |-> e,
   result |-> IF p \in {SOURCES, SEARCHER} /\ e # NULL THEN NoData(p) ELSE d]

\* What a lone submission that settles with resp displays.
DisplayedAlone(p, req, resp) ==
  LET o == SettleOutcome(p, req, resp, NoData(p), NULL) IN
  Displayed(p, FALSE, o.error, o.data)

\* C6: when the last of two overlapping requests has settled, the page
\* displays exactly what the response that settled last produces, and
\* nothing of the response that settled before it.
C6_LastSettledWins ==
  (ev.kind = "settle" /\ overlap /\ inflight = {}) =>
    Displayed(page, isLoading, error, data) = DisplayedAlone(page, ev.req, ev.resp)

\* C7 (as claimed): no lock prevents a second submission: while a request is
\* pending the form can still be submitted.
C7_SubmitWhileLoading == isLoading => ~ButtonDisabled

\* C7 (amended): handleSubmit takes no lock of its own, but every form
\* disables its submit button and its inputs while isLoading is true, so
\* through the form a page never has two requests in flight: a pending
\* request comes with isLoading and a disabled form.
C7_FormLockedWhilePending ==
  /\ Cardinality(inflight) <= 1
  /\ inflight # {} => (isLoading /\ ButtonDisabled /\ InputsDisabled)
  /\ ~overlap

C7_Witness ==
  /\ Cardinality(inflight) = 1 /\ isLoading /\ ButtonDisabled
  /\ ev.kind = "submit"

\* The 2xx payload has the shape page p expects.
ExpectedShape(p, b) ==
  /\ b.json = "obj"
  /\ CASE p = QA -> b.answer # ABSENT
       [] p = SOURCES -> b.answer = "OBJ" /\ b.sourcesKind = "array"
       [] p \in {SEARCHER, AGGREGATOR} ->
            b.articlesKind = "array" /\ b.count # NoCount

GenericFormatMsgs == {InvalidFormat, NoSourcesFound, NoSourcesAvailable}

\* C8: a 2xx response whose JSON payload deviates from the expected shape
\* settles in Error with a generic format message, never in Success.
C8_MalformedIsError ==
  (/\ ev.kind = "settle" /\ ev.resp.net = "ok" /\ IsOk(ev.resp.status)
   /\ ev.resp.body.json = "obj"
   /\ ~ExpectedShape(page, ev.resp.body)) =>
    (Variants = {"Error"} /\ error \in GenericFormatMsgs)

\* The messages of the code that are fixed texts for a failed request.
FixedFailureMsgs ==
  { NoResponseMsg,
    "Failed to generate sources. Please try again.",
    "Failed to search articles. Please try again.",
    "Failed to fetch data" }

\* C9: a request that gets no response settles in Error with a fixed message
\* that is not the text of the underlying failure.
C9_NoResponseFixedMessage ==
  (ev.kind = "settle" /\ ev.resp.net = "fail") =>
    (Variants = {"Error"} /\ error \in FixedFailureMsgs)

C11_FormOnlyChangedByInput ==
  /\ [][ form' # form => ev'.kind = "input" ]_vars
  /\ [](ev.kind = "settle" => form = ev.req.form)

C11_Witness ==
  /\ ev.kind = "settle" /\ HasError
  /\ form # InitialForm(page) /\ form = ev.req.form

\* The form-driven page under the assumption that every dispatched request
\* eventually settles (the HTTP client resolves or rejects every call).
SpecFair == Spec /\ WF_vars(Settle)

Settled == {{"Success"}, {"Error"}}

\* C12: if every dispatched request eventually settles, Loading is always
\* followed by a state with isLoading false, that state is Success or Error
\* on every settlement path, and from Success or Error a submit with a valid
\* form leads to Loading again.
C12_LoadingSettlesThenResubmits ==
  /\ isLoading ~> ~isLoading
  /\ [][ (isLoading /\ ~isLoading') => Variants' \in Settled ]_vars
  /\ [][ (Variants \in Settled /\ ~RequiredEmpty /\ ev'.kind \in SubmitKinds)
           => Variants' = {"Loading"} ]_vars

\* The parts of C12 that do not depend on what a 2xx payload holds.
C12_LoadingEnds == isLoading ~> ~isLoading

C12_Resubmits ==
  [][ (Variants \in Settled /\ ~RequiredEmpty /\ ev'.kind \in SubmitKinds)
        => Variants' = {"Loading"} ]_vars

\* What of a request goes on the wire: the method, the endpoint and the
\* query parameters or JSON body.
Wire(req) == [method |-> req.method, endpoint |-> req.endpoint, params |-> req.params]

\* C13: the request a submit dispatches is determined by the page and the
\* form at submit time: GET /ask with the trimmed question; POST /sources
\* with the topic, or the default question when the topic is empty; GET
\* /search with exactly url, query and method; GET /coordinate with the topic.
C13_RequestFromForm ==
  ev.kind = "submit" =>
    /\ ev.req \in inflight
    /\ CASE page = QA ->
              /\ Wire(ev.req) = [method |-> "GET",
                                 endpoint |-> "http://localhost:8002/ask",
                                 params |-> [question |-> Trim(form.question)]]
              /\ ev.req.params.question # <<>>
              /\ ~IsSpace(Head(ev.req.params.question))
              /\ ~IsSpace(ev.req.params.question[Len(ev.req.params.question)])
         [] page = SOURCES ->
              Wire(ev.req) = [method |-> "POST",
                              endpoint |-> "http://localhost:8002/sources",
                              params |-> [question |->
                                 IF form.topic = <<>> THEN DefaultQuestion
                                 ELSE form.topic]]
         [] page = SEARCHER ->
              Wire(ev.req) = [method |-> "GET",
                              endpoint |-> "http://localhost:8000/search",
                              params |-> [url |-> form.url, query |-> form.query,
                                          method |-> form.method]]
         [] page = AGGREGATOR ->
              Wire(ev.req) = [method |-> "GET",
                              endpoint |-> "http://localhost:8003/coordinate",
                              params |-> [question |-> form.topic]]

C13_Witness ==
  /\ ev.kind = "submit" /\ page = QA
  /\ form.question = <<SP, "a">> /\ ev.req.params.question = <<"a">>

\* The request and the (result, error) pair the aggregator would have
\* produced had the language field been l when the form was submitted.
WithLanguage(req, l) ==
  BuildRequest(AGGREGATOR, [req.form EXCEPT !.language = l], req.id)

\* C14: on the aggregator the language field does not reach the endpoint:
\* the dispatched request is the one any other language would have produced,
\* and so is the state a response leaves.
C14_LanguageNotSent ==
  (page = AGGREGATOR /\ ev.kind \in {"submit", "settle"}) =>
    \A l \in AggregatorLanguages :
      /\ Wire(WithLanguage(ev.req, l)) = Wire(ev.req)
      /\ "language" \notin DOMAIN ev.req.params
      /\ ev.kind = "settle" =>
           /\ data = SettleOutcome(page, WithLanguage(ev.req, l), ev.resp,
                                   NoData(page), NULL).data
           /\ error = SettleOutcome(page, WithLanguage(ev.req, l), ev.resp,
                                    NoData(page), NULL).error

C14_Witness ==
  /\ page = AGGREGATOR /\ ev.kind = "settle" /\ HasData
  /\ ev.req.form.language = "es" /\ ev.req.params.question = <<"a">>

\* ============================================================ the renderer
\* The Source records the list entries name.  url is the member as received:
\* hasUrl is FALSE when the record has no url member.
MkSource(name, description, hasUrl, url) ==
  [name |-> name, description |-> description, hasUrl |-> hasUrl, url |-> url]

SourceRecord(id) ==
  CASE id = "s1" -> MkSource("N1", "D1", TRUE, HTTPS_PREFIX \o <<"a">>)
    [] id = "s2" -> MkSource(ABSENT, ABSENT, TRUE, <<"a">>)
    [] id = "s3" -> MkSource("N3", "", FALSE, <<>>)
    [] id = "s4" -> MkSource("N4", "D4", TRUE, HTTPS_PREFIX)
    [] id = "s5" -> MkSource("N5", ABSENT, TRUE, <<"x", ":", "a", "/">>)

\* The Article records the list entries name.
ArticleRecord(id) ==
  CASE id = "a1" -> [title |-> "T1", summary |-> "S1", url |-> HTTPS_PREFIX \o <<"a">>]
    [] id = "a2" -> [title |-> "T2", summary |-> ABSENT, url |-> HTTPS_PREFIX \o <<"b">>]

\* Position of the first occurrence of character c in s, 0 when there is none.
RECURSIVE IndexOf(_, _, _)
IndexOf(s, c, from) ==
  IF from > Len(s) THEN 0
  ELSE IF s[from] = c THEN from ELSE IndexOf(s, c, from + 1)

RECURSIVE SkipSlashes(_)
SkipSlashes(s) ==
  IF s # <<>> /\ Head(s) = "/" THEN SkipSlashes(Tail(s)) ELSE s

AsciiAlpha == {"a", "b", "h", "p", "s", "t", "w", "x"}
SchemeChars == AsciiAlpha \cup {"+", "-", "."}

\* Schemes whose URLs need a host.
SpecialSchemes ==
  { <<"h","t","t","p">>, <<"h","t","t","p","s">>, <<"f","t","p">>,
    <<"w","s">>, <<"w","s","s">> }

\* `new URL(text)` without a base does not throw: after stripping leading and
\* trailing spaces the text starts with a scheme (a letter, then letters,
\* '+', '-' or '.', then ':'), and for a special scheme a non-empty host
\* without spaces follows the slashes.
ParsesAsUrl(text) ==
  LET t == Trim(text)
      colon == IndexOf(t, ":", 1)
      scheme == SubSeq(t, 1, colon - 1)
      rest == SkipSlashes(SubSeq(t, colon + 1, Len(t)))
      slash == IndexOf(rest, "/", 1)
      host == IF slash = 0 THEN rest ELSE SubSeq(rest, 1, slash - 1)
  IN
  /\ colon > 1
  /\ t[1] \in AsciiAlpha
  /\ \A k \in 2..(colon - 1) : t[k] \in SchemeChars
  /\ scheme \in SpecialSchemes =>
       (host # <<>> /\ \A k \in 1..Len(host) : ~IsSpace(host[k]))

\* SourceCard.isValidUrl(source.url); a missing url is the text 'undefined'.
IsValidUrl(src) == src.hasUrl /\ ParsesAsUrl(src.url)

\* url.replace(/^https?:\/\//, '')
StripProtocol(u) ==
  IF StartsWith(u, HTTPS_PREFIX) THEN SubSeq(u, Len(HTTPS_PREFIX) + 1, Len(u))
  ELSE IF StartsWith(u, HTTP \o <<":", "/", "/">>) THEN SubSeq(u, 8, Len(u))
  ELSE u

MaxShownUrl == 40

\* SourceCard.formatUrl
FormatUrl(u) ==
  LET a == StripProtocol(u)
      b == IF a # <<>> /\ a[Len(a)] = "/" THEN SubSeq(a, 1, Len(a) - 1) ELSE a
  IN IF Len(b) > MaxShownUrl
     THEN SubSeq(b, 1, MaxShownUrl) \o <<".", ".", ".">> ELSE b

InvalidUrlText == "Invalid or missing URL"

\* x || fallback for a string member.
MemberOrElse(x, fallback) == IF Truthy(x) THEN x ELSE fallback

\* A card that shows the link whatever the url is.
SourceCard_AlwaysLink(src, key) ==
  [key |-> key,
   name |-> MemberOrElse(src.name, "Unnamed Source"),
   description |-> MemberOrElse(src.description, "No description available"),
   anchor |-> TRUE,
   href |-> src.url,
   shownUrl |-> FormatUrl(src.url),
   text |-> "Visit Source"]

\* <SourceCard key={index} source={source} />
SourceCard(src, key) ==
  [key |-> key,
   name |-> MemberOrElse(src.name, "Unnamed Source"),
   description |-> MemberOrElse(src.description, "No description available"),
   anchor |-> IsValidUrl(src),
   href |-> IF IsValidUrl(src) THEN src.url ELSE <<>>,
   shownUrl |-> IF IsValidUrl(src) THEN FormatUrl(src.url) ELSE <<>>,
   text |-> IF IsValidUrl(src) THEN "Visit Source" ELSE InvalidUrlText]

\* <ArticleCard key={index} article={article} />
ArticleCard(art, key) ==
  [key |-> key, title |-> art.title,
   summary |-> MemberOrElse(art.summary, "No summary available"),
   href |-> art.url, text |-> "Read Article"]

\* A list rendered back to front.
SourceCards_Reversed(list) ==
  [i \in 1..Len(list) |->
     SourceCard(SourceRecord(list[Len(list) + 1 - i]), i - 1)]

\* sources.map((source, index) => <SourceCard key={index} source={source} />)
SourceCards(list) ==
  [i \in 1..Len(list) |-> SourceCard(SourceRecord(list[i]), i - 1)]

\* articles.map((article, index) => <ArticleCard key={index} article={article} />)
ArticleCards(list) ==
  [i \in 1..Len(list) |-> ArticleCard(ArticleRecord(list[i]), i - 1)]

Rendered(crashed, arts, srcs, note) ==
  [crashed |-> crashed, articleCards |-> arts, sourceCards |-> srcs, note |-> note]

\* The sources member of the body itself is an array.
HasTopSources(b) == b.answer = ABSENT /\ b.sourcesKind = "array"

\* The result area of page p for the state (e, d).  crashed: the render
\* throws (a .map on a value that is not an array) and nothing is shown.
Render(p, e, d) ==
  CASE p = QA -> Rendered(FALSE, <<>>, <<>>, "")
    [] p = SOURCES ->
         IF d.t = "none" \/ e # NULL THEN Rendered(FALSE, <<>>, <<>>, "")
         ELSE IF Len(d.sources) > 0
         THEN Rendered(FALSE, <<>>, SourceCards(d.sources), "")
         ELSE Rendered(FALSE, <<>>, <<>>, "No sources available")
    [] p = SEARCHER ->
         IF d.t = "none" \/ e # NULL THEN Rendered(FALSE, <<>>, <<>>, "")
         ELSE IF Len(d.v.articles) > 0
         THEN Rendered(FALSE, ArticleCards(d.v.articles), <<>>, "")
         ELSE Rendered(FALSE, <<>>, <<>>, "No articles found")
    [] p = AGGREGATOR ->
         IF d.t = "none" THEN Rendered(FALSE, <<>>, <<>>, "")
         ELSE IF d.v.articlesKind # "array" \/ ~HasTopSources(d.v)
         THEN Rendered(TRUE, <<>>, <<>>, "")
         ELSE Rendered(FALSE, ArticleCards(d.v.articles), SourceCards(d.v.sources), "")

\* What the mounted page renders in its result area.
View == Render(page, error, data)

\* The lists of the stored result the renderer maps over: articles, sources.
ShownArticles ==
  CASE page = SEARCHER -> data.v.articles
    [] page = AGGREGATOR -> data.v.articles
    [] OTHER -> <<>>

ShownSources ==
  CASE page = SOURCES -> data.sources
    [] page = AGGREGATOR -> data.v.sources
    [] OTHER -> <<>>

\* The stored result holds every list the page's renderer maps over.
ListsWellFormed ==
  CASE page = AGGREGATOR -> data.v.articlesKind = "array" /\ HasTopSources(data.v)
    [] OTHER -> TRUE

AggregatorWithoutSources ==
  /\ page = AGGREGATOR /\ Variants = {"Success"}
  /\ data.v.articlesKind = "array" /\ data.v.count # NoCount
  /\ View.crashed

\* The cards of Source records the mounted page shows, with their records.
ShownSourceCount ==
  IF View.crashed THEN 0 ELSE Len(View.sourceCards)

\* C16: a shown Source card has an anchor, with href = source.url, exactly
\* when source.url parses as a URL; when the url is missing or does not
\* parse the card shows 'Invalid or missing URL' and no anchor, and the
\* other cards of the list are shown as they are without that card.
C16_LinkIffUrlParses ==
  \A i \in 1..ShownSourceCount :
    LET src == SourceRecord(ShownSources[i])
        card == View.sourceCards[i]
        parses == src.hasUrl /\ ParsesAsUrl(src.url)
    IN
    /\ card.anchor <=> parses
    /\ parses => (card.href = src.url /\ card.text = "Visit Source")
    /\ ~parses => (card.text = InvalidUrlText /\ card.href = <<>>)
    /\ ShownSourceCount = Len(ShownSources)
    /\ card.name = MemberOrElse(src.name, "Unnamed Source")

C16_Witness ==
  /\ page = SOURCES /\ HasData /\ ShownSources = <<"s1", "s3", "s1">>
  /\ ShownSourceCount = 3
  /\ View.sourceCards[1].anchor /\ View.sourceCards[1].href = HTTPS_PREFIX \o <<"a">>
  /\ ~View.sourceCards[2].anchor /\ View.sourceCards[2].text = InvalidUrlText
  /\ View.sourceCards[3].anchor

\* The urls of the catalogue as the parser decides them.
C16_UrlCases ==
  /\ IsValidUrl(SourceRecord("s1")) /\ ~IsValidUrl(SourceRecord("s2"))
  /\ ~IsValidUrl(SourceRecord("s3")) /\ ~IsValidUrl(SourceRecord("s4"))
  /\ IsValidUrl(SourceRecord("s5"))

\* C17: while a request dispatched by the page has not settled isLoading is
\* true and the form controls are disabled; isLoading falls only when no
\* request remains in flight.
C17_LoadingWhilePending ==
  /\ [](inflight # {} => (isLoading /\ InputsDisabled /\ ButtonDisabled))
  /\ [][ (isLoading /\ ~isLoading') => inflight' = {} ]_vars

C17_Witness ==
  /\ inflight # {} /\ isLoading /\ ev.kind = "submit" /\ ev.from = {"Error"}

\* The 2xx response of the last settlement carries no non-empty array of
\* sources: answer.sources is missing, not an array, or empty.
NoUsableSources(b) ==
  \/ b.json # "obj"
  \/ b.answer # "OBJ"
  \/ b.sourcesKind # "array"
  \/ Len(b.sources) = 0

\* C18: on the sources generator a non-null sourcesData holds a non-empty
\* array of sources; a 2xx response without one settles in Error, so Success
\* with zero sources, and the 'No sources available' branch of the render,
\* are never reached.
C18_SourcesNeverEmpty ==
  page = SOURCES =>
    /\ HasData => (Len(data.sources) > 0 /\ View.note # "No sources available")
    /\ (/\ ev.kind = "settle" /\ ev.resp.net = "ok" /\ IsOk(ev.resp.status)
        /\ NoUsableSources(ev.resp.body))
         => (Variants = {"Error"} /\ ~HasData)

C18_Witness ==
  /\ page = SOURCES /\ ev.kind = "settle" /\ ev.resp.status = 200
  /\ ev.resp.body.json = "obj" /\ ev.resp.body.answer = "OBJ"
  /\ ev.resp.body.sourcesKind = "array" /\ ev.resp.body.sources = <<>>
  /\ error = NoSourcesAvailable /\ ~HasData

\* C19: on the searcher the stored url is empty or starts with 'http'; a
\* change event whose non-empty value does not start with 'http' stores
\* 'https://' + ('www.' unless the value starts with 'www.') + value; the
\* rule leaves a stored url unchanged; query and method are stored as
\* entered.
C19_UrlNormalized ==
  page = SEARCHER =>
    /\ form.url = <<>> \/ StartsWith(form.url, HTTP)
    /\ NormalizeUrl(form.url) = form.url
    /\ (ev.kind = "input" /\ ev.name = "url") =>
         IF ev.value = <<>> \/ StartsWith(ev.value, HTTP)
         THEN form.url = ev.value
         ELSE IF StartsWith(ev.value, WWW)
         THEN form.url = HTTPS_PREFIX \o ev.value
         ELSE form.url = HTTPS_PREFIX \o WWW \o ev.value
    /\ (ev.kind = "input" /\ ev.name = "query") => form.query = ev.value
    /\ (ev.kind = "input" /\ ev.name = "method") => form.method = ev.value

C19_Witness ==
  /\ page = SEARCHER /\ ev.kind = "input" /\ ev.name = "url"
  /\ ev.value = <<"h", "t", "t">>
  /\ form.url = <<"h","t","t","p","s",":","/","/","w","w","w",".","h","t","t">>

====
